---- MODULE Spec2Model ----
(***************************************************************************)
(* CoMapeo Cloud gateway (src/routes.js): bearer authentication, project   *)
(* admission (PUT /projects), the bearer-gated project-scoped getters, the *)
(* project listing (GET /projects) and the replication endpoint            *)
(* (GET /sync/:projectPublicId) with the socket/stream bridge it opens.    *)
(* The bridge (ws-core-replicator.js) follows the state machine of the     *)
(* specification, sections 4.4 and 5.  The error handler is applied to     *)
(* every error a handler throws.                                           *)
(*                                                                         *)
(* Strings are sequences of one-character strings, so that length checks,  *)
(* prefixes, slices and byte-by-byte comparison are computed as the code   *)
(* computes them.  Every `await` of a handler is a step boundary: one      *)
(* action runs the synchronous code up to the next store call, performs    *)
(* that call, and the next action of the request resumes after it.         *)
(***************************************************************************)
EXTENDS Integers, Sequences, FiniteSets, TLC

VARIABLES
    serverBearerToken,  \* route option: the configured secret
    allowedProjects,    \* route option: undefined | number | string[]
    projects,           \* the store's project table, in insertion order
    deviceInfo,         \* the store's device info (getDeviceInfo / setDeviceInfo)
    syncStarted,        \* public ids on which project.$sync.start() was called
    reqs,               \* requests received so far, each with its position
    hdr,                \* SpecBearer: header value handed to isBearerTokenValid
    res,                \* SpecBearer: what isBearerTokenValid returned for it
    sessions,           \* replication sessions opened by GET /sync/:projectPublicId
    cmp                 \* SpecCompare: one run of the comparator

vars == <<serverBearerToken, allowedProjects, projects, deviceInfo,
          syncStarted, reqs, hdr, res, sessions, cmp>>

----------------------------------------------------------------------------
(* Bounds *)

MaxKeys == 2            \* distinct project keys clients submit
MaxRequests == 2        \* requests received in one behaviour
MaxAllowed == 2         \* largest numeric ALLOWED_PROJECTS
MaxSecretLen == 2       \* SpecBearer: longest configured secret
MaxTokenLen == 3        \* SpecBearer: longest token part of a header
MaxSessions == 1        \* SpecSession: sync connections in one behaviour
MaxChunks == 2          \* chunks the sockets and streams deliver in one behaviour
MaxCloses == 2          \* close requests made on Closed bridges in one behaviour
MaxRegistrations == 3   \* SpecDevice: registrations of one project in one behaviour

----------------------------------------------------------------------------
(* Strings *)

Chars == {"a", "b"}

RECURSIVE StringsUpTo(_)
StringsUpTo(n) ==
    IF n = 0 THEN {<< >>}
    ELSE LET shorter == StringsUpTo(n - 1)
         IN  shorter \cup {Append(s, c) : s \in {t \in shorter : Len(t) = n - 1}, c \in Chars}

Max(a, b) == IF a >= b THEN a ELSE b

\* 'Bearer '
BearerSpace == <<"B", "e", "a", "r", "e", "r", " ">>

BEARER_SPACE_LENGTH == Len(BearerSpace)

startsWith(s, prefix) ==
    /\ Len(s) >= Len(prefix)
    /\ SubSeq(s, 1, Len(prefix)) = prefix

slice(s, start) == SubSeq(s, start + 1, Len(s))

\* A byte of a string, zero-padded past its end.
byteAt(s, i) == IF i <= Len(s) THEN s[i] ELSE "\\0"

\* string-timing-safe-equal: both inputs are padded to the longer length and
\* every position is compared; the difference is accumulated, never returned
\* early.  The result also requires equal lengths.
RECURSIVE tseScan(_, _, _, _)
tseScan(a, b, i, diff) ==
    IF i > Max(Len(a), Len(b)) THEN diff
    ELSE tseScan(a, b, i + 1, diff + (IF byteAt(a, i) = byteAt(b, i) THEN 0 ELSE 1))

timingSafeEqual(a, b) == tseScan(a, b, 1, 0) = 0 /\ Len(a) = Len(b)

RECURSIVE tseComparisons_StopsAtFirstDifference(_, _, _, _)
tseComparisons_StopsAtFirstDifference(a, b, i, n) ==
    IF i > Max(Len(a), Len(b)) THEN n
    ELSE IF byteAt(a, i) # byteAt(b, i) THEN n + 1
    ELSE tseComparisons_StopsAtFirstDifference(a, b, i + 1, n + 1)

\* The byte comparisons one run of string-timing-safe-equal makes: the loop
\* of tseScan, counting its iterations
RECURSIVE tseComparisons(_, _, _, _)
tseComparisons(a, b, i, n) ==
    IF i > Max(Len(a), Len(b)) THEN n
    ELSE tseComparisons(a, b, i + 1, n + 1)

\* One run of the comparator: its inputs, its result and its work
NoCompare == [a |-> << >>, b |-> << >>, done |-> FALSE, equal |-> FALSE, comparisons |-> 0]

----------------------------------------------------------------------------
(* Bearer authentication *)

\* req.headers.authorization: absent, or a string
NoHeader == [present |-> FALSE, value |-> << >>]
Header(s) == [present |-> TRUE, value |-> s]

isBearerTokenValid_NoPrefixCheck(headerValue, expectedBearerToken) ==
    LET hv == IF headerValue.present THEN headerValue.value ELSE << >>
        expectedLength == BEARER_SPACE_LENGTH + Len(expectedBearerToken)
    IN  IF Len(hv) # expectedLength THEN FALSE
        ELSE timingSafeEqual(slice(hv, BEARER_SPACE_LENGTH), expectedBearerToken)

isBearerTokenValid(headerValue, expectedBearerToken) ==
    LET hv == IF headerValue.present THEN headerValue.value ELSE << >>
        expectedLength == BEARER_SPACE_LENGTH + Len(expectedBearerToken)
    IN  IF Len(hv) # expectedLength THEN FALSE
        ELSE IF ~startsWith(hv, BearerSpace) THEN FALSE
        ELSE timingSafeEqual(slice(hv, BEARER_SPACE_LENGTH), expectedBearerToken)

verifyBearerAuth_LeaksMalformed(authorization) ==
    IF isBearerTokenValid(authorization, serverBearerToken) THEN "ok"
    ELSE IF authorization.present /\ startsWith(authorization.value, BearerSpace)
         THEN "invalidBearerToken"
         ELSE "badRequestError"

\* verifyBearerAuth: the name of the error it throws, or "ok"
verifyBearerAuth(authorization) ==
    IF ~isBearerTokenValid(authorization, serverBearerToken)
    THEN "invalidBearerToken"
    ELSE "ok"

routeHasBearerPreHandler_All(route) == TRUE

\* Which routes declare a preHandler that calls verifyBearerAuth.
\* PUT /projects declares none.
routeHasBearerPreHandler(route) ==
    route \in {"GET /projects", "GET /projects/:projectPublicId/:dataType"}

----------------------------------------------------------------------------
(* Errors and the error handler *)

Undefined == "<undefined>"

\* The values error.statusCode may hold: undefined, a number (integer part
\* and tenths) or a string of digits
JsUndefined == [type |-> "undefined", int |-> 0, tenths |-> 0]
JsNumber(int, tenths) == [type |-> "number", int |-> int, tenths |-> tenths]
JsString(int) == [type |-> "string", int |-> int, tenths |-> 0]

\* errors.js
invalidBearerToken ==
    [statusCode |-> JsNumber(401, 0), code |-> "UNAUTHORIZED", message |-> "Invalid bearer token"]
projectNotInAllowlist ==
    [statusCode |-> JsNumber(403, 0), code |-> "PROJECT_NOT_IN_ALLOWLIST", message |-> "Project not allowed"]
tooManyProjects ==
    [statusCode |-> JsNumber(403, 0), code |-> "TOO_MANY_PROJECTS",
     message |-> "Server is already linked to the maximum number of projects"]
projectNotFoundError ==
    [statusCode |-> JsNumber(404, 0), code |-> "PROJECT_NOT_FOUND", message |-> "Project not found"]
badRequestError ==
    [statusCode |-> JsNumber(400, 0), code |-> "BAD_REQUEST", message |-> "Bad request"]

\* Errors that are not made by errors.js: a plain Error thrown by the store
\* (no statusCode, no code) and the AssertionError of assert.equal.
storeError(msg) == [statusCode |-> JsUndefined, code |-> Undefined, message |-> msg]
assertionError ==
    [statusCode |-> JsUndefined, code |-> "ERR_ASSERTION",
     message |-> "adding a project should return the same ID as what was passed"]

errorNamed(name) ==
    CASE name = "invalidBearerToken" -> invalidBearerToken
      [] name = "projectNotInAllowlist" -> projectNotInAllowlist
      [] name = "tooManyProjects" -> tooManyProjects
      [] name = "projectNotFoundError" -> projectNotFoundError
      [] name = "badRequestError" -> badRequestError
      [] OTHER -> storeError(name)

\* node:http STATUS_CODES, the entries the gateway can produce
STATUS_CODES(statusCode) ==
    CASE statusCode = 400 -> "Bad Request"
      [] statusCode = 401 -> "Unauthorized"
      [] statusCode = 403 -> "Forbidden"
      [] statusCode = 404 -> "Not Found"
      [] statusCode = 500 -> "Internal Server Error"
      [] OTHER -> Undefined

\* errors.normalizeCode: upper-cases and replaces every non-letter by "_"
normalizeCode(str) ==
    CASE str = "Bad Request" -> "BAD_REQUEST"
      [] str = "Unauthorized" -> "UNAUTHORIZED"
      [] str = "Forbidden" -> "FORBIDDEN"
      [] str = "Not Found" -> "NOT_FOUND"
      [] str = "Internal Server Error" -> "INTERNAL_SERVER_ERROR"
      [] str = "FST_ERR_VALIDATION" -> "BAD_REQUEST"
      [] OTHER -> str

NoReply == [status |-> 0, code |-> "", message |-> "", deviceId |-> ""]

\* The error that reached the error handler: none yet
NoError == [statusCode |-> JsUndefined, code |-> "", message |-> ""]

\* A value is truthy unless it is undefined, the number 0 or the empty string
truthy(value) ==
    \/ value.type = "string"
    \/ value.type = "number" /\ (value.int # 0 \/ value.tenths # 0)

\* Number.isInteger
isInteger(value) == value.type = "number" /\ value.tenths = 0

errorHandler_KeepsStatusCode(error) ==
    LET statusCode == IF truthy(error.statusCode) THEN error.statusCode.int ELSE 500
        fromStatus == IF STATUS_CODES(statusCode) = Undefined
                      THEN "ERROR" ELSE STATUS_CODES(statusCode)
        code == normalizeCode(IF error.code # Undefined THEN error.code ELSE fromStatus)
        message == IF error.message = Undefined THEN "Server error" ELSE error.message
    IN  [status |-> statusCode, code |-> code, message |-> message, deviceId |-> ""]

\* fastify.setErrorHandler
errorHandler(error) ==
    LET sc0 == IF truthy(error.statusCode) THEN error.statusCode ELSE JsNumber(500, 0)
        statusCode == IF ~isInteger(sc0) \/ sc0.int < 400 \/ sc0.int >= 600
                      THEN 500 ELSE sc0.int
        fromStatus == IF STATUS_CODES(statusCode) = Undefined
                      THEN "ERROR" ELSE STATUS_CODES(statusCode)
        code == normalizeCode(IF error.code # Undefined THEN error.code ELSE fromStatus)
        message == IF error.message = Undefined THEN "Server error" ELSE error.message
    IN  [status |-> statusCode, code |-> code, message |-> message, deviceId |-> ""]

----------------------------------------------------------------------------
(* The store (this.comapeo) *)

Keys == 1 .. MaxKeys

\* @mapeo/crypto keyToPublicId: deterministic and injective; ids of
\* neighbouring keys share a prefix
projectKeyToPublicId(projectKey) ==
    <<(IF ((projectKey - 1) \div 2) % 2 = 0 THEN "a" ELSE "b"),
      (IF (projectKey - 1) % 2 = 0 THEN "a" ELSE "b"),
      (IF (projectKey - 1) \div 4 = 0 THEN "a" ELSE "b")>>

PublicIds == {projectKeyToPublicId(k) : k \in Keys}

DeviceId == "server-device-id"
ServerName == "CoMapeo Server"

comapeo_hasProject(projectPublicId) ==
    \E i \in 1 .. Len(projects) : projects[i].projectId = projectPublicId

\* A key outside Keys on which the store's derivation of the public id and
\* the gateway's disagree (the defect that assert.equal guards against): the
\* store files it under the id of MistakenKey
FaultyKey == 8
MistakenKey == 4

\* The public id the store derives from a project key
storeKeyToPublicId(projectKey) ==
    IF projectKey = FaultyKey THEN projectKeyToPublicId(MistakenKey)
    ELSE projectKeyToPublicId(projectKey)

comapeo_addProject_NoExistsCheck(projectKey, projectName, encryptionKeys) ==
    [ok |-> TRUE, projectId |-> storeKeyToPublicId(projectKey),
     projects |-> Append(projects,
                     [projectId |-> storeKeyToPublicId(projectKey),
                      name |-> projectName,
                      encryptionKeys |-> encryptionKeys])]

\* MapeoManager.addProject: a project id the manager already holds is
\* refused with an Error; otherwise the keys are saved and the id returned.
comapeo_addProject(projectKey, projectName, encryptionKeys) ==
    IF comapeo_hasProject(storeKeyToPublicId(projectKey))
    THEN [ok |-> FALSE, projectId |-> storeKeyToPublicId(projectKey),
          projects |-> projects]
    ELSE [ok |-> TRUE, projectId |-> storeKeyToPublicId(projectKey),
          projects |-> Append(projects,
                          [projectId |-> storeKeyToPublicId(projectKey),
                           name |-> projectName,
                           encryptionKeys |-> encryptionKeys])]

comapeo_getProject(projectPublicId) ==
    IF comapeo_hasProject(projectPublicId) THEN "ok" ELSE "NotFoundError"

----------------------------------------------------------------------------
(* Route options *)

DefaultAllowedProjects == 1

OptUndefined == [kind |-> "undefined", n |-> 0, ids |-> {}]
OptNumber(n) == [kind |-> "number", n |-> n, ids |-> {}]
OptArray(ids) == [kind |-> "array", n |-> 0, ids |-> ids]

\* The configurations explored: the default, a number above it, and the
\* allowlists of the first n public ids
AllowedProjectsOptions ==
    {OptUndefined, OptNumber(MaxAllowed)}
        \cup {OptArray({projectKeyToPublicId(k) : k \in 1 .. n}) : n \in 0 .. MaxKeys}

\* { allowedProjects = 1 } and allowedProjectsSetOrNumber
allowedProjectsSetOrNumber ==
    IF allowedProjects.kind = "array"
    THEN [isSet |-> TRUE, set |-> allowedProjects.ids, number |-> 0]
    ELSE [isSet |-> FALSE, set |-> {},
          number |-> IF allowedProjects.kind = "undefined"
                     THEN DefaultAllowedProjects ELSE allowedProjects.n]

----------------------------------------------------------------------------
(* PUT /projects: the admission decision *)

alreadyHasThisProject_Never(existingProjects, projectPublicId) == FALSE

\* existingProjects.some((p) => timingSafeEqual(p.projectId, projectPublicId))
RECURSIVE someFrom(_, _, _)
someFrom(existingProjects, projectPublicId, i) ==
    IF i > Len(existingProjects) THEN FALSE
    ELSE IF timingSafeEqual(existingProjects[i].projectId, projectPublicId) THEN TRUE
    ELSE someFrom(existingProjects, projectPublicId, i + 1)

alreadyHasThisProject(existingProjects, projectPublicId) ==
    someFrom(existingProjects, projectPublicId, 1)

\* The calls of timingSafeEqual that existingProjects.some(...) makes: some
\* stops at the first element for which the callback returns true
RECURSIVE someComparisons(_, _, _, _)
someComparisons(existingProjects, projectPublicId, i, n) ==
    IF i > Len(existingProjects) THEN n
    ELSE IF timingSafeEqual(existingProjects[i].projectId, projectPublicId) THEN n + 1
    ELSE someComparisons(existingProjects, projectPublicId, i + 1, n + 1)

admissionCheck_OffByOne(already, existingProjects, projectPublicId) ==
    IF already THEN "ok"
    ELSE IF allowedProjectsSetOrNumber.isSet
          /\ projectPublicId \notin allowedProjectsSetOrNumber.set
    THEN "projectNotInAllowlist"
    ELSE IF ~allowedProjectsSetOrNumber.isSet
          /\ Len(existingProjects) > allowedProjectsSetOrNumber.number
    THEN "tooManyProjects"
    ELSE "ok"

admissionCheck_OneCode(already, existingProjects, projectPublicId) ==
    IF already THEN "ok"
    ELSE IF allowedProjectsSetOrNumber.isSet
          /\ projectPublicId \notin allowedProjectsSetOrNumber.set
    THEN "tooManyProjects"
    ELSE IF ~allowedProjectsSetOrNumber.isSet
          /\ Len(existingProjects) >= allowedProjectsSetOrNumber.number
    THEN "tooManyProjects"
    ELSE "ok"

\* if (!alreadyHasThisProject) { ... throw ... }: the error thrown, or "ok"
admissionCheck(already, existingProjects, projectPublicId) ==
    IF already THEN "ok"
    ELSE IF allowedProjectsSetOrNumber.isSet
          /\ projectPublicId \notin allowedProjectsSetOrNumber.set
    THEN "projectNotInAllowlist"
    ELSE IF ~allowedProjectsSetOrNumber.isSet
          /\ Len(existingProjects) >= allowedProjectsSetOrNumber.number
    THEN "tooManyProjects"
    ELSE "ok"

needsDeviceInfo_Always(existingDeviceInfo, baseUrl) == TRUE

needsDeviceInfo_Never(existingDeviceInfo, baseUrl) == FALSE

\* existingDeviceInfo.deviceType === 'device_type_unspecified' ||
\* existingDeviceInfo.selfHostedServerDetails?.baseUrl !== baseUrl
needsDeviceInfo(existingDeviceInfo, baseUrl) ==
    \/ existingDeviceInfo.deviceType = "device_type_unspecified"
    \/ existingDeviceInfo.baseUrl # baseUrl

----------------------------------------------------------------------------
(* Requests *)

PUT_PROJECTS == "PUT /projects"
GET_DATA == "GET /projects/:projectPublicId/:dataType"
GET_PROJECTS == "GET /projects"
GET_SYNC == "GET /sync/:projectPublicId"

ProjectNames == {"name one"}
EncryptionKeySets == {"keys one"}
BaseUrls == {"https://one.example/", "https://two.example/"}

\* The secret of the test server, and the header values clients send
TestToken == <<"a", "b">>
ValidHeader == Header(BearerSpace \o TestToken)
WrongSecretHeader == Header(BearerSpace \o <<"a", "a">>)
ShortHeader == Header(BearerSpace \o <<"b">>)
MalformedHeader == Header(<<"b", "e", "a", "r", "e", "r", " ">> \o TestToken)
RequestHeaders == {NoHeader, ValidHeader, WrongSecretHeader, ShortHeader, MalformedHeader}

NewRequest(route, authorization, projectKey, projectName, encryptionKeys, baseUrl) ==
    [route |-> route,
     pc |-> "start",
     authorization |-> authorization,
     projectKey |-> projectKey,
     projectName |-> projectName,
     encryptionKeys |-> encryptionKeys,
     baseUrl |-> baseUrl,
     existingProjects |-> << >>,    \* const existingProjects
     already |-> FALSE,             \* const alreadyHasThisProject
     addResult |-> [ok |-> FALSE, projectId |-> << >>],
     found |-> "",                  \* outcome of the pending getProject
     storeCalls |-> 0,              \* calls made on this.comapeo
     mutations |-> 0,               \* of which setDeviceInfo, addProject, $sync.start
     priorSuccess |-> \E j \in 1 .. Len(reqs) :
                         /\ reqs[j].route = PUT_PROJECTS
                         /\ route = PUT_PROJECTS
                         /\ reqs[j].projectKey = projectKey
                         /\ reqs[j].pc = "done"
                         /\ reqs[j].reply.status = 200,
     \* public ids whose registration had been answered 200 on receipt
     registered |-> {projectKeyToPublicId(reqs[j].projectKey) :
                        j \in {i \in 1 .. Len(reqs) :
                                  /\ reqs[i].route = PUT_PROJECTS
                                  /\ reqs[i].pc = "done"
                                  /\ reqs[i].reply.status = 200}},
     data |-> << >>,                \* the data of a 200 response that lists
     error |-> NoError,             \* the error that reached the error handler
     reply |-> NoReply]

projectPublicIdOf(r) == projectKeyToPublicId(reqs[r].projectKey)

Throw(r, error) ==
    reqs' = [reqs EXCEPT ![r] = [@ EXCEPT !.pc = "done", !.error = error,
                                          !.reply = errorHandler(error)]]

\* A client sends PUT /projects
ReceivePutProjectFrom(headers, projectNames, encryptionKeySets, baseUrls) ==
    /\ Len(reqs) < MaxRequests
    /\ \E authorization \in headers, projectKey \in Keys,
          projectName \in projectNames, encryptionKeys \in encryptionKeySets,
          baseUrl \in baseUrls :
          reqs' = Append(reqs, NewRequest(PUT_PROJECTS, authorization, projectKey,
                                          projectName, encryptionKeys, baseUrl))
    /\ UNCHANGED <<serverBearerToken, allowedProjects, projects, deviceInfo,
                   syncStarted, hdr, res, sessions, cmp>>

\* A client sends GET /projects/:projectPublicId/:dataType
ReceiveGetDataFrom(headers) ==
    /\ Len(reqs) < MaxRequests
    /\ \E authorization \in headers, projectKey \in Keys :
          reqs' = Append(reqs, NewRequest(GET_DATA, authorization, projectKey,
                                          "", "", "https://one.example/"))
    /\ UNCHANGED <<serverBearerToken, allowedProjects, projects, deviceInfo,
                   syncStarted, hdr, res, sessions, cmp>>

----------------------------------------------------------------------------
(* PUT /projects handler *)

\* preHandler (none declared), then
\* const existingProjects = await this.comapeo.listProjects()
PutListProjects(r) ==
    /\ reqs[r].route = PUT_PROJECTS
    /\ reqs[r].pc = "start"
    /\ IF routeHasBearerPreHandler(PUT_PROJECTS)
          /\ verifyBearerAuth(reqs[r].authorization) # "ok"
       THEN Throw(r, errorNamed(verifyBearerAuth(reqs[r].authorization)))
       ELSE reqs' = [reqs EXCEPT ![r] = [@ EXCEPT !.pc = "listed",
                                                  !.existingProjects = projects,
                                                  !.storeCalls = @ + 1]]
    /\ UNCHANGED <<serverBearerToken, allowedProjects, projects, deviceInfo,
                   syncStarted, hdr, res, sessions, cmp>>

\* The handler from `if (!alreadyHasThisProject) { await addProject }` to the
\* call of getProject: the next store call is made and the request suspends.
CallAddOrGetProject(r, already) ==
    IF ~already
    THEN LET added == comapeo_addProject(reqs[r].projectKey, reqs[r].projectName,
                                         reqs[r].encryptionKeys)
         IN  /\ projects' = added.projects
             /\ reqs' = [reqs EXCEPT ![r] =
                           [@ EXCEPT !.pc = "adding",
                                     !.already = already,
                                     !.addResult = [ok |-> added.ok,
                                                    projectId |-> added.projectId],
                                     !.storeCalls = @ + 1,
                                     !.mutations = @ + 1]]
    ELSE /\ projects' = projects
         /\ reqs' = [reqs EXCEPT ![r] =
                       [@ EXCEPT !.pc = "getting",
                                 !.already = already,
                                 !.found = comapeo_getProject(projectPublicIdOf(r)),
                                 !.storeCalls = @ + 1]]

PutAdmit_DeviceInfoFirst(r) ==
    /\ reqs[r].route = PUT_PROJECTS
    /\ reqs[r].pc = "listed"
    /\ LET already == alreadyHasThisProject(reqs[r].existingProjects, projectPublicIdOf(r))
           check == admissionCheck(already, reqs[r].existingProjects, projectPublicIdOf(r))
           set == needsDeviceInfo(deviceInfo, reqs[r].baseUrl)
       IN  /\ deviceInfo' = IF set
                            THEN [deviceType |-> "selfHostedServer",
                                  name |-> ServerName,
                                  baseUrl |-> reqs[r].baseUrl]
                            ELSE deviceInfo
           /\ IF check # "ok"
              THEN /\ reqs' = [reqs EXCEPT ![r] =
                                 [@ EXCEPT !.pc = "done",
                                           !.mutations = @ + (IF set THEN 1 ELSE 0),
                                           !.reply = errorHandler(errorNamed(check))]]
                   /\ UNCHANGED projects
              ELSE CallAddOrGetProject(r, already)
    /\ UNCHANGED <<serverBearerToken, allowedProjects, syncStarted, hdr, res, sessions, cmp>>

\* After listProjects resolves: the membership test, the policy check, the
\* device info check, and the next store call (setDeviceInfo, addProject or
\* getProject).
PutAdmit(r) ==
    /\ reqs[r].route = PUT_PROJECTS
    /\ reqs[r].pc = "listed"
    /\ LET already == alreadyHasThisProject(reqs[r].existingProjects, projectPublicIdOf(r))
           check == admissionCheck(already, reqs[r].existingProjects, projectPublicIdOf(r))
       IN  IF check # "ok"
           THEN /\ Throw(r, errorNamed(check))
                /\ UNCHANGED <<projects, deviceInfo>>
           ELSE IF needsDeviceInfo(deviceInfo, reqs[r].baseUrl)
           THEN /\ deviceInfo' = [deviceType |-> "selfHostedServer",
                                  name |-> ServerName,
                                  baseUrl |-> reqs[r].baseUrl]
                /\ reqs' = [reqs EXCEPT ![r] = [@ EXCEPT !.pc = "settingDeviceInfo",
                                                         !.already = already,
                                                         !.storeCalls = @ + 1,
                                                         !.mutations = @ + 1]]
                /\ UNCHANGED projects
           ELSE /\ CallAddOrGetProject(r, already)
                /\ UNCHANGED deviceInfo
    /\ UNCHANGED <<serverBearerToken, allowedProjects, syncStarted, hdr, res, sessions, cmp>>

\* After setDeviceInfo resolves
PutAfterSetDeviceInfo(r) ==
    /\ reqs[r].route = PUT_PROJECTS
    /\ reqs[r].pc = "settingDeviceInfo"
    /\ CallAddOrGetProject(r, reqs[r].already)
    /\ UNCHANGED <<serverBearerToken, allowedProjects, deviceInfo, syncStarted, hdr, res, sessions, cmp>>

\* After addProject settles: its rejection propagates; assert.equal on the
\* returned id; then getProject is called.
PutAfterAddProject(r) ==
    /\ reqs[r].route = PUT_PROJECTS
    /\ reqs[r].pc = "adding"
    /\ IF ~reqs[r].addResult.ok
       THEN Throw(r, storeError("Project already exists"))
       ELSE IF reqs[r].addResult.projectId # projectPublicIdOf(r)
       THEN Throw(r, assertionError)
       ELSE reqs' = [reqs EXCEPT ![r] =
                       [@ EXCEPT !.pc = "getting",
                                 !.found = comapeo_getProject(projectPublicIdOf(r)),
                                 !.storeCalls = @ + 1]]
    /\ UNCHANGED <<serverBearerToken, allowedProjects, projects, deviceInfo,
                   syncStarted, hdr, res, sessions, cmp>>

PutRespond_NoSyncStart(r) ==
    /\ reqs[r].route = PUT_PROJECTS
    /\ reqs[r].pc = "getting"
    /\ IF reqs[r].found # "ok"
       THEN Throw(r, storeError(reqs[r].found))
       ELSE reqs' = [reqs EXCEPT ![r] =
                       [@ EXCEPT !.pc = "done",
                                 !.reply = [status |-> 200, code |-> "", message |-> "",
                                            deviceId |-> DeviceId]]]
    /\ UNCHANGED <<serverBearerToken, allowedProjects, projects, deviceInfo,
                   syncStarted, hdr, res, sessions, cmp>>

\* After getProject settles: project.$sync.start() and the response
PutRespond(r) ==
    /\ reqs[r].route = PUT_PROJECTS
    /\ reqs[r].pc = "getting"
    /\ IF reqs[r].found # "ok"
       THEN /\ Throw(r, storeError(reqs[r].found))
            /\ UNCHANGED syncStarted
       ELSE /\ syncStarted' = syncStarted \cup {projectPublicIdOf(r)}
            /\ reqs' = [reqs EXCEPT ![r] =
                          [@ EXCEPT !.pc = "done",
                                    !.mutations = @ + 1,
                                    !.reply = [status |-> 200, code |-> "", message |-> "",
                                               deviceId |-> DeviceId]]]
    /\ UNCHANGED <<serverBearerToken, allowedProjects, projects, deviceInfo, hdr, res, sessions, cmp>>

----------------------------------------------------------------------------
(* GET /projects/:projectPublicId/:dataType (addDatatypeGetter) *)

GetPreHandler_ExistsFirst(r) ==
    /\ reqs[r].route = GET_DATA
    /\ reqs[r].pc = "start"
    /\ IF comapeo_getProject(projectPublicIdOf(r)) # "ok"
       THEN reqs' = [reqs EXCEPT ![r] =
                       [@ EXCEPT !.pc = "done",
                                 !.storeCalls = @ + 1,
                                 !.reply = errorHandler(projectNotFoundError)]]
       ELSE IF verifyBearerAuth(reqs[r].authorization) # "ok"
       THEN reqs' = [reqs EXCEPT ![r] =
                       [@ EXCEPT !.pc = "done",
                                 !.storeCalls = @ + 1,
                                 !.reply = errorHandler(errorNamed(
                                              verifyBearerAuth(reqs[r].authorization)))]]
       ELSE reqs' = [reqs EXCEPT ![r] =
                       [@ EXCEPT !.pc = "ensuring",
                                 !.found = "ok",
                                 !.storeCalls = @ + 1]]
    /\ UNCHANGED <<serverBearerToken, allowedProjects, projects, deviceInfo,
                   syncStarted, hdr, res, sessions, cmp>>

\* preHandler: verifyBearerAuth(req), then the getProject call of
\* ensureProjectExists
GetPreHandler(r) ==
    /\ reqs[r].route = GET_DATA
    /\ reqs[r].pc = "start"
    /\ IF verifyBearerAuth(reqs[r].authorization) # "ok"
       THEN Throw(r, errorNamed(verifyBearerAuth(reqs[r].authorization)))
       ELSE reqs' = [reqs EXCEPT ![r] =
                       [@ EXCEPT !.pc = "ensuring",
                                 !.found = comapeo_getProject(projectPublicIdOf(r)),
                                 !.storeCalls = @ + 1]]
    /\ UNCHANGED <<serverBearerToken, allowedProjects, projects, deviceInfo,
                   syncStarted, hdr, res, sessions, cmp>>

\* ensureProjectExists after its getProject settles, then the handler's own
\* getProject call
GetEnsureProjectExists(r) ==
    /\ reqs[r].route = GET_DATA
    /\ reqs[r].pc = "ensuring"
    /\ IF reqs[r].found = "NotFoundError"
       THEN Throw(r, projectNotFoundError)
       ELSE reqs' = [reqs EXCEPT ![r] =
                       [@ EXCEPT !.pc = "handling",
                                 !.found = comapeo_getProject(projectPublicIdOf(r)),
                                 !.storeCalls = @ + 1]]
    /\ UNCHANGED <<serverBearerToken, allowedProjects, projects, deviceInfo,
                   syncStarted, hdr, res, sessions, cmp>>

\* The handler: datatype.getMany and the 200 response
GetRespond(r) ==
    /\ reqs[r].route = GET_DATA
    /\ reqs[r].pc = "handling"
    /\ IF reqs[r].found # "ok"
       THEN Throw(r, storeError(reqs[r].found))
       ELSE reqs' = [reqs EXCEPT ![r] =
                       [@ EXCEPT !.pc = "done",
                                 !.storeCalls = @ + 1,
                                 !.reply = [status |-> 200, code |-> "", message |-> "",
                                            deviceId |-> ""]]]
    /\ UNCHANGED <<serverBearerToken, allowedProjects, projects, deviceInfo,
                   syncStarted, hdr, res, sessions, cmp>>

----------------------------------------------------------------------------
(* GET /projects *)

\* A client sends GET /projects
ReceiveGetProjectsFrom(headers) ==
    /\ Len(reqs) < MaxRequests
    /\ \E authorization \in headers :
          reqs' = Append(reqs, NewRequest(GET_PROJECTS, authorization, 1,
                                          "", "", "https://one.example/"))
    /\ UNCHANGED <<serverBearerToken, allowedProjects, projects, deviceInfo,
                   syncStarted, hdr, res, sessions, cmp>>

projectsData_WithoutLast(existingProjects) ==
    [i \in 1 .. Len(existingProjects) - 1 |->
        [projectId |-> existingProjects[i].projectId, name |-> existingProjects[i].name]]

\* projects.map((project) => ({ projectId: project.projectId, name: project.name }))
projectsData(existingProjects) ==
    [i \in 1 .. Len(existingProjects) |->
        [projectId |-> existingProjects[i].projectId, name |-> existingProjects[i].name]]

\* preHandler: verifyBearerAuth(req); then the handler calls listProjects
GetProjectsPreHandler(r) ==
    /\ reqs[r].route = GET_PROJECTS
    /\ reqs[r].pc = "start"
    /\ IF routeHasBearerPreHandler(GET_PROJECTS)
          /\ verifyBearerAuth(reqs[r].authorization) # "ok"
       THEN Throw(r, errorNamed(verifyBearerAuth(reqs[r].authorization)))
       ELSE reqs' = [reqs EXCEPT ![r] = [@ EXCEPT !.pc = "listing",
                                                  !.existingProjects = projects,
                                                  !.storeCalls = @ + 1]]
    /\ UNCHANGED <<serverBearerToken, allowedProjects, projects, deviceInfo,
                   syncStarted, hdr, res, sessions, cmp>>

\* After listProjects resolves: the 200 response with the mapped list
GetProjectsRespond(r) ==
    /\ reqs[r].route = GET_PROJECTS
    /\ reqs[r].pc = "listing"
    /\ reqs' = [reqs EXCEPT ![r] =
                  [@ EXCEPT !.pc = "done",
                            !.data = projectsData(reqs[r].existingProjects),
                            !.reply = [status |-> 200, code |-> "", message |-> "",
                                       deviceId |-> ""]]]
    /\ UNCHANGED <<serverBearerToken, allowedProjects, projects, deviceInfo,
                   syncStarted, hdr, res, sessions, cmp>>

----------------------------------------------------------------------------
(* The replication bridge (ws-core-replicator.js): one session pairs one
   socket with one replication stream.  A chunk is named by its position in
   its direction; a chunk received on one side is handed to the other side in
   the same step, and the receiving side is paused while the other side's
   buffer is full. *)

\* Chunks one side may hold unconsumed before it signals that it is full
HighWaterMark == 1

\* replicateProject(project, false): a new replication stream on every call
replicateProject_OnePerProject(projectPublicId) ==
    [project |-> projectPublicId, n |-> 0]

replicateProject(projectPublicId) ==
    [project |-> projectPublicId, n |-> Len(sessions) + 1]

\* wsCoreReplicator(socket, replicationStream): the bridge, entered Open
wsCoreReplicator(socket, replicationStream) ==
    [socket |-> socket,
     replicationStream |-> replicationStream,
     state |-> "Open",
     socketOpen |-> TRUE,
     streamOpen |-> TRUE,
     fromSocket |-> << >>,      \* chunks received from the socket
     toStream |-> << >>,        \* chunks written to the stream
     fromStream |-> << >>,      \* chunks produced by the stream
     toSocket |-> << >>,        \* messages sent on the socket
     streamPending |-> 0,       \* written to the stream, not yet consumed by it
     socketPending |-> 0,       \* sent on the socket, not yet flushed by it
     socketPaused |-> FALSE,
     streamPaused |-> FALSE,
     failed |-> FALSE,          \* the socket or the stream raised an error
     closeRequests |-> 0,       \* close requests made on the bridge once Closed
     closeThrew |-> FALSE]      \* a close request raised an error

Chunks(session) == Len(session.fromSocket) + Len(session.fromStream)

RECURSIVE TotalChunks(_, _)
TotalChunks(seq, i) ==
    IF i > Len(seq) THEN 0 ELSE Chunks(seq[i]) + TotalChunks(seq, i + 1)

CloseRequests(session) == session.closeRequests

RECURSIVE TotalCloseRequests(_, _)
TotalCloseRequests(seq, i) ==
    IF i > Len(seq) THEN 0 ELSE CloseRequests(seq[i]) + TotalCloseRequests(seq, i + 1)

BridgeFrame ==
    UNCHANGED <<serverBearerToken, allowedProjects, projects, deviceInfo,
                syncStarted, reqs, hdr, res, cmp>>

SetSession(s, session) == sessions' = [sessions EXCEPT ![s] = session]

\* Entering Closed: what the two buffers still hold is discarded
Closed(session) ==
    [session EXCEPT !.state = "Closed",
                    !.streamPending = 0, !.socketPending = 0,
                    !.socketPaused = FALSE, !.streamPaused = FALSE]

SocketMessage_IgnoresBackpressure(s) ==
    /\ sessions[s].state \in {"Open", "HalfClosedByStream"}
    /\ TotalChunks(sessions, 1) < MaxChunks
    /\ LET chunk == Len(sessions[s].fromSocket) + 1
       IN  SetSession(s, [sessions[s] EXCEPT
                             !.fromSocket = Append(@, chunk),
                             !.toStream = Append(@, chunk),
                             !.streamPending = @ + 1])
    /\ BridgeFrame

\* The socket delivers a message: it is written to the stream; if the stream
\* is then full, socket reads are paused
SocketMessage(s) ==
    /\ sessions[s].state \in {"Open", "HalfClosedByStream"}
    /\ ~sessions[s].socketPaused
    /\ TotalChunks(sessions, 1) < MaxChunks
    /\ LET chunk == Len(sessions[s].fromSocket) + 1
       IN  SetSession(s, [sessions[s] EXCEPT
                             !.fromSocket = Append(@, chunk),
                             !.toStream = Append(@, chunk),
                             !.streamPending = @ + 1,
                             !.socketPaused = (sessions[s].streamPending + 1 >= HighWaterMark)])
    /\ BridgeFrame

\* The stream consumes what was written to it and drains: socket reads resume
StreamDrain(s) ==
    /\ sessions[s].state # "Closed"
    /\ sessions[s].streamPending > 0
    /\ SetSession(s, [sessions[s] EXCEPT !.streamPending = 0, !.socketPaused = FALSE])
    /\ BridgeFrame

StreamData_Reorders(s) ==
    /\ sessions[s].state \in {"Open", "HalfClosedBySocket"}
    /\ ~sessions[s].streamPaused
    /\ TotalChunks(sessions, 1) < MaxChunks
    /\ LET chunk == Len(sessions[s].fromStream) + 1
       IN  SetSession(s, [sessions[s] EXCEPT
                             !.fromStream = Append(@, chunk),
                             !.toSocket = <<chunk>> \o @,
                             !.socketPending = @ + 1,
                             !.streamPaused = (sessions[s].socketPending + 1 >= HighWaterMark)])
    /\ BridgeFrame

\* The stream produces a chunk: it is sent on the socket; if the socket's
\* outbound buffer is then saturated, stream reads are paused
StreamData(s) ==
    /\ sessions[s].state \in {"Open", "HalfClosedBySocket"}
    /\ ~sessions[s].streamPaused
    /\ TotalChunks(sessions, 1) < MaxChunks
    /\ LET chunk == Len(sessions[s].fromStream) + 1
       IN  SetSession(s, [sessions[s] EXCEPT
                             !.fromStream = Append(@, chunk),
                             !.toSocket = Append(@, chunk),
                             !.socketPending = @ + 1,
                             !.streamPaused = (sessions[s].socketPending + 1 >= HighWaterMark)])
    /\ BridgeFrame

\* The socket flushes its outbound buffer and drains: stream reads resume
SocketDrain(s) ==
    /\ sessions[s].state # "Closed"
    /\ sessions[s].socketPending > 0
    /\ SetSession(s, [sessions[s] EXCEPT !.socketPending = 0, !.streamPaused = FALSE])
    /\ BridgeFrame

SocketClose_ClosesBridge(s) ==
    /\ sessions[s].state \in {"Open", "HalfClosedByStream"}
    /\ SetSession(s, Closed([sessions[s] EXCEPT !.socketOpen = FALSE]))
    /\ BridgeFrame

\* The socket signals end of input or closes
SocketClose(s) ==
    /\ sessions[s].state \in {"Open", "HalfClosedByStream"}
    /\ SetSession(s, IF sessions[s].state = "Open"
                      THEN [sessions[s] EXCEPT !.socketOpen = FALSE,
                                               !.state = "HalfClosedBySocket"]
                      ELSE Closed([sessions[s] EXCEPT !.socketOpen = FALSE]))
    /\ BridgeFrame

\* The stream ends
StreamEnd(s) ==
    /\ sessions[s].state \in {"Open", "HalfClosedBySocket"}
    /\ SetSession(s, IF sessions[s].state = "Open"
                      THEN [sessions[s] EXCEPT !.streamOpen = FALSE,
                                               !.state = "HalfClosedByStream"]
                      ELSE Closed([sessions[s] EXCEPT !.streamOpen = FALSE]))
    /\ BridgeFrame

CancelStream_WaitsForStreamEnd(s) ==
    /\ sessions[s].state = "HalfClosedBySocket"
    /\ ~sessions[s].streamOpen
    /\ SetSession(s, Closed(sessions[s]))
    /\ BridgeFrame

\* Cancellation: the socket has closed, the bridge closes the paired stream
CancelStream(s) ==
    /\ sessions[s].state = "HalfClosedBySocket"
    /\ SetSession(s, Closed([sessions[s] EXCEPT !.streamOpen = FALSE]))
    /\ BridgeFrame

\* Cancellation: the stream has ended, the bridge closes the socket
CancelSocket(s) ==
    /\ sessions[s].state = "HalfClosedByStream"
    /\ SetSession(s, Closed([sessions[s] EXCEPT !.socketOpen = FALSE]))
    /\ BridgeFrame

RaiseError_KeepsOtherSide(s, side) ==
    /\ sessions[s].state # "Closed"
    /\ SetSession(s, [sessions[s] EXCEPT
                         !.failed = TRUE,
                         !.socketOpen = IF side = "socket" THEN FALSE ELSE @,
                         !.streamOpen = IF side = "stream" THEN FALSE ELSE @,
                         !.state = IF @ = "Open"
                                   THEN (IF side = "socket" THEN "HalfClosedBySocket"
                                                            ELSE "HalfClosedByStream")
                                   ELSE "Closed"])
    /\ BridgeFrame

\* The socket or the stream raises an error: the bridge is Closed at once and
\* the other side is closed or destroyed
RaiseError(s, side) ==
    /\ sessions[s].state # "Closed"
    /\ SetSession(s, Closed([sessions[s] EXCEPT !.failed = TRUE,
                                                !.socketOpen = FALSE,
                                                !.streamOpen = FALSE]))
    /\ BridgeFrame

SocketError(s) == RaiseError(s, "socket")

StreamError(s) == RaiseError(s, "stream")

Close_ThrowsWhenClosed(s) ==
    /\ sessions[s].state = "Closed" => TotalCloseRequests(sessions, 1) < MaxCloses
    /\ IF sessions[s].state = "Closed"
       THEN SetSession(s, [sessions[s] EXCEPT !.closeRequests = @ + 1,
                                              !.closeThrew = TRUE])
       ELSE SetSession(s, Closed([sessions[s] EXCEPT !.socketOpen = FALSE,
                                                     !.streamOpen = FALSE]))
    /\ BridgeFrame

\* A close request on the bridge: both sides are closed; on a Closed bridge
\* it does nothing
Close(s) ==
    /\ sessions[s].state = "Closed" => TotalCloseRequests(sessions, 1) < MaxCloses
    /\ IF sessions[s].state = "Closed"
       THEN SetSession(s, [sessions[s] EXCEPT !.closeRequests = @ + 1])
       ELSE SetSession(s, Closed([sessions[s] EXCEPT !.socketOpen = FALSE,
                                                     !.streamOpen = FALSE]))
    /\ BridgeFrame

----------------------------------------------------------------------------
(* GET /sync/:projectPublicId *)

\* A client opens a sync connection
ReceiveSyncFrom(headers, projectKeys) ==
    /\ Len(reqs) < MaxRequests
    /\ \E authorization \in headers, projectKey \in projectKeys :
          reqs' = Append(reqs, NewRequest(GET_SYNC, authorization, projectKey,
                                          "", "", "https://one.example/"))
    /\ UNCHANGED <<serverBearerToken, allowedProjects, projects, deviceInfo,
                   syncStarted, hdr, res, sessions, cmp>>

SyncPreHandler_NoGate(r) ==
    /\ reqs[r].route = GET_SYNC
    /\ reqs[r].pc = "start"
    /\ reqs' = [reqs EXCEPT ![r] = [@ EXCEPT !.pc = "ensuring", !.found = "ok"]]
    /\ UNCHANGED <<serverBearerToken, allowedProjects, projects, deviceInfo,
                   syncStarted, hdr, res, sessions, cmp>>

\* preHandler: the getProject call of ensureProjectExists
SyncPreHandler(r) ==
    /\ reqs[r].route = GET_SYNC
    /\ reqs[r].pc = "start"
    /\ IF routeHasBearerPreHandler(GET_SYNC)
          /\ verifyBearerAuth(reqs[r].authorization) # "ok"
       THEN Throw(r, errorNamed(verifyBearerAuth(reqs[r].authorization)))
       ELSE reqs' = [reqs EXCEPT ![r] =
                       [@ EXCEPT !.pc = "ensuring",
                                 !.found = comapeo_getProject(projectPublicIdOf(r)),
                                 !.storeCalls = @ + 1]]
    /\ UNCHANGED <<serverBearerToken, allowedProjects, projects, deviceInfo,
                   syncStarted, hdr, res, sessions, cmp>>

\* ensureProjectExists after its getProject settles, then the handler's own
\* getProject call
SyncEnsureProjectExists(r) ==
    /\ reqs[r].route = GET_SYNC
    /\ reqs[r].pc = "ensuring"
    /\ IF reqs[r].found = "NotFoundError"
       THEN Throw(r, projectNotFoundError)
       ELSE reqs' = [reqs EXCEPT ![r] =
                       [@ EXCEPT !.pc = "handling",
                                 !.found = comapeo_getProject(projectPublicIdOf(r)),
                                 !.storeCalls = @ + 1]]
    /\ UNCHANGED <<serverBearerToken, allowedProjects, projects, deviceInfo,
                   syncStarted, hdr, res, sessions, cmp>>

\* The handler after getProject settles: replicateProject, wsCoreReplicator
\* and project.$sync.start()
SyncHandler(r) ==
    /\ reqs[r].route = GET_SYNC
    /\ reqs[r].pc = "handling"
    /\ IF reqs[r].found # "ok"
       THEN /\ Throw(r, storeError(reqs[r].found))
            /\ UNCHANGED <<sessions, syncStarted>>
       ELSE /\ sessions' = Append(sessions,
                              wsCoreReplicator(r, replicateProject(projectPublicIdOf(r))))
            /\ syncStarted' = syncStarted \cup {projectPublicIdOf(r)}
            /\ reqs' = [reqs EXCEPT ![r] =
                          [@ EXCEPT !.pc = "done",
                                    !.mutations = @ + 1,
                                    !.reply = [status |-> 101, code |-> "", message |-> "",
                                               deviceId |-> ""]]]
    /\ UNCHANGED <<serverBearerToken, allowedProjects, projects, deviceInfo,
                   hdr, res, cmp>>

----------------------------------------------------------------------------
(* The gateway *)

Init ==
    /\ serverBearerToken = TestToken
    /\ allowedProjects \in AllowedProjectsOptions
    /\ projects = << >>
    /\ deviceInfo = [deviceType |-> "device_type_unspecified",
                     name |-> Undefined, baseUrl |-> Undefined]
    /\ syncStarted = {}
    /\ reqs = << >>
    /\ hdr = NoHeader
    /\ res = FALSE
    /\ sessions = << >>
    /\ cmp = NoCompare

\* Registration as the test suite does it: no Authorization header
ReceivePutProjectNoHeader ==
    ReceivePutProjectFrom({NoHeader}, ProjectNames, EncryptionKeySets,
                          {"https://one.example/"})

\* Registration by clients that reach the server under either base URL
ReceivePutProject ==
    ReceivePutProjectFrom({NoHeader}, ProjectNames, EncryptionKeySets, BaseUrls)

Next ==
    \/ ReceivePutProjectNoHeader
    \/ \E r \in 1 .. Len(reqs) : PutListProjects(r)
    \/ \E r \in 1 .. Len(reqs) : PutAdmit(r)
    \/ \E r \in 1 .. Len(reqs) : PutAfterSetDeviceInfo(r)
    \/ \E r \in 1 .. Len(reqs) : PutAfterAddProject(r)
    \/ \E r \in 1 .. Len(reqs) : PutRespond(r)

Spec == Init /\ [][Next]_vars

----------------------------------------------------------------------------
(* The gateway with clients that send every kind of Authorization header *)

InitAuth ==
    /\ serverBearerToken = TestToken
    /\ allowedProjects = OptUndefined
    /\ projects = << >>
    /\ deviceInfo = [deviceType |-> "device_type_unspecified",
                     name |-> Undefined, baseUrl |-> Undefined]
    /\ syncStarted = {}
    /\ reqs = << >>
    /\ hdr = NoHeader
    /\ res = FALSE
    /\ sessions = << >>
    /\ cmp = NoCompare

ReceivePutProjectAnyHeader ==
    ReceivePutProjectFrom({NoHeader, WrongSecretHeader, ValidHeader},
                          ProjectNames, EncryptionKeySets, {"https://one.example/"})

ReceiveGetData == ReceiveGetDataFrom(RequestHeaders)

\* Registration alone, with every kind of Authorization header
NextRegister ==
    \/ ReceivePutProjectAnyHeader
    \/ \E r \in 1 .. Len(reqs) : PutListProjects(r)
    \/ \E r \in 1 .. Len(reqs) : PutAdmit(r)
    \/ \E r \in 1 .. Len(reqs) : PutAfterSetDeviceInfo(r)
    \/ \E r \in 1 .. Len(reqs) : PutAfterAddProject(r)
    \/ \E r \in 1 .. Len(reqs) : PutRespond(r)

SpecRegister == InitAuth /\ [][NextRegister]_vars

NextAuth ==
    \/ ReceivePutProjectNoHeader
    \/ ReceiveGetData
    \/ \E r \in 1 .. Len(reqs) : PutListProjects(r)
    \/ \E r \in 1 .. Len(reqs) : PutAdmit(r)
    \/ \E r \in 1 .. Len(reqs) : PutAfterSetDeviceInfo(r)
    \/ \E r \in 1 .. Len(reqs) : PutAfterAddProject(r)
    \/ \E r \in 1 .. Len(reqs) : PutRespond(r)
    \/ \E r \in 1 .. Len(reqs) : GetPreHandler(r)
    \/ \E r \in 1 .. Len(reqs) : GetEnsureProjectExists(r)
    \/ \E r \in 1 .. Len(reqs) : GetRespond(r)

SpecAuth == InitAuth /\ [][NextAuth]_vars

----------------------------------------------------------------------------
(* Registration, listing and the project-scoped getters together: clients
   register without a header, list with any header and read with the
   credential; the server admits up to MaxAllowed projects *)

InitList ==
    /\ serverBearerToken = TestToken
    /\ allowedProjects = OptNumber(MaxAllowed)
    /\ projects = << >>
    /\ deviceInfo = [deviceType |-> "device_type_unspecified",
                     name |-> Undefined, baseUrl |-> Undefined]
    /\ syncStarted = {}
    /\ reqs = << >>
    /\ hdr = NoHeader
    /\ res = FALSE
    /\ sessions = << >>
    /\ cmp = NoCompare

ReceiveGetProjects ==
    ReceiveGetProjectsFrom({NoHeader, WrongSecretHeader, ValidHeader})

ReceiveGetDataWithCredential == ReceiveGetDataFrom({ValidHeader})

NextList ==
    \/ ReceivePutProjectNoHeader
    \/ ReceiveGetProjects
    \/ ReceiveGetDataWithCredential
    \/ \E r \in 1 .. Len(reqs) : PutListProjects(r)
    \/ \E r \in 1 .. Len(reqs) : PutAdmit(r)
    \/ \E r \in 1 .. Len(reqs) : PutAfterSetDeviceInfo(r)
    \/ \E r \in 1 .. Len(reqs) : PutAfterAddProject(r)
    \/ \E r \in 1 .. Len(reqs) : PutRespond(r)
    \/ \E r \in 1 .. Len(reqs) : GetProjectsPreHandler(r)
    \/ \E r \in 1 .. Len(reqs) : GetProjectsRespond(r)
    \/ \E r \in 1 .. Len(reqs) : GetPreHandler(r)
    \/ \E r \in 1 .. Len(reqs) : GetEnsureProjectExists(r)
    \/ \E r \in 1 .. Len(reqs) : GetRespond(r)

SpecList == InitList /\ [][NextList]_vars

----------------------------------------------------------------------------
(* Sync connections and their replication sessions, on a server whose store
   already holds the project of the first key *)

InitBridge ==
    /\ serverBearerToken = TestToken
    /\ allowedProjects = OptUndefined
    /\ projects = <<[projectId |-> projectKeyToPublicId(1),
                     name |-> "name one",
                     encryptionKeys |-> "keys one"]>>
    /\ deviceInfo = [deviceType |-> "selfHostedServer",
                     name |-> ServerName, baseUrl |-> "https://one.example/"]
    /\ syncStarted = {}
    /\ reqs = << >>
    /\ hdr = NoHeader
    /\ res = FALSE
    /\ sessions = << >>
    /\ cmp = NoCompare

\* The sessions that are not Closed
NotClosed == {s \in 1 .. Len(sessions) : sessions[s].state # "Closed"}

\* Sync connections for the stored project; they carry no Authorization header
ReceiveSync == ReceiveSyncFrom({NoHeader}, {1})

NextBridge ==
    \/ ReceiveSync
    \/ \E r \in 1 .. Len(reqs) : SyncPreHandler(r)
    \/ \E r \in 1 .. Len(reqs) : SyncEnsureProjectExists(r)
    \/ \E r \in 1 .. Len(reqs) : SyncHandler(r)
    \/ \E s \in 1 .. Len(sessions) : SocketMessage(s)
    \/ \E s \in 1 .. Len(sessions) : StreamDrain(s)
    \/ \E s \in 1 .. Len(sessions) : StreamData(s)
    \/ \E s \in 1 .. Len(sessions) : SocketDrain(s)
    \/ \E s \in 1 .. Len(sessions) : SocketClose(s)
    \/ \E s \in 1 .. Len(sessions) : StreamEnd(s)
    \/ \E s \in 1 .. Len(sessions) : CancelStream(s)
    \/ \E s \in 1 .. Len(sessions) : CancelSocket(s)
    \/ \E s \in 1 .. Len(sessions) : SocketError(s)
    \/ \E s \in 1 .. Len(sessions) : StreamError(s)
    \/ \E s \in NotClosed : Close(s)

SpecBridge == InitBridge /\ [][NextBridge]_vars

----------------------------------------------------------------------------
(* One replication session at a time, with every event of its socket, of its
   stream and of its owner, close requests on a Closed bridge included *)

\* Sync connections for any project, with or without the credential
ReceiveSyncSession ==
    /\ Len(reqs) < MaxSessions
    /\ ReceiveSyncFrom({NoHeader, ValidHeader}, Keys)

NextSession ==
    \/ ReceiveSyncSession
    \/ \E r \in 1 .. Len(reqs) : SyncPreHandler(r)
    \/ \E r \in 1 .. Len(reqs) : SyncEnsureProjectExists(r)
    \/ \E r \in 1 .. Len(reqs) : SyncHandler(r)
    \/ \E s \in 1 .. Len(sessions) : SocketMessage(s)
    \/ \E s \in 1 .. Len(sessions) : StreamDrain(s)
    \/ \E s \in 1 .. Len(sessions) : StreamData(s)
    \/ \E s \in 1 .. Len(sessions) : SocketDrain(s)
    \/ \E s \in 1 .. Len(sessions) : SocketClose(s)
    \/ \E s \in 1 .. Len(sessions) : StreamEnd(s)
    \/ \E s \in 1 .. Len(sessions) : CancelStream(s)
    \/ \E s \in 1 .. Len(sessions) : CancelSocket(s)
    \/ \E s \in 1 .. Len(sessions) : SocketError(s)
    \/ \E s \in 1 .. Len(sessions) : StreamError(s)
    \/ \E s \in 1 .. Len(sessions) : Close(s)

SpecSession == InitBridge /\ [][NextSession]_vars

\* The bridge's own cancellation steps are callbacks the event loop runs
CancelFairness ==
    \A s \in 1 .. MaxSessions :
        /\ WF_vars(s <= Len(sessions) /\ CancelStream(s))
        /\ WF_vars(s <= Len(sessions) /\ CancelSocket(s))

SpecSessionFair == SpecSession /\ CancelFairness

----------------------------------------------------------------------------
(* Registration and sync connections together *)

ReceiveSyncAnyKey == ReceiveSyncFrom({NoHeader, WrongSecretHeader}, Keys)

NextSync ==
    \/ ReceivePutProjectNoHeader
    \/ ReceiveSyncAnyKey
    \/ \E r \in 1 .. Len(reqs) : PutListProjects(r)
    \/ \E r \in 1 .. Len(reqs) : PutAdmit(r)
    \/ \E r \in 1 .. Len(reqs) : PutAfterSetDeviceInfo(r)
    \/ \E r \in 1 .. Len(reqs) : PutAfterAddProject(r)
    \/ \E r \in 1 .. Len(reqs) : PutRespond(r)
    \/ \E r \in 1 .. Len(reqs) : SyncPreHandler(r)
    \/ \E r \in 1 .. Len(reqs) : SyncEnsureProjectExists(r)
    \/ \E r \in 1 .. Len(reqs) : SyncHandler(r)

SpecSync == InitList /\ [][NextSync]_vars

----------------------------------------------------------------------------
(* isBearerTokenValid on its own *)

Secrets == StringsUpTo(MaxSecretLen) \ {<< >>}

HeaderPrefixes ==
    {BearerSpace,
     <<"b", "e", "a", "r", "e", "r", " ">>,
     <<"B", "e", "a", "r", "e", "r">>,
     <<"B", "e", "a", "r", "e", "r", " ", " ">>,
     << >>}

HeaderValues ==
    {NoHeader} \cup {Header(p \o t) : p \in HeaderPrefixes, t \in StringsUpTo(MaxTokenLen)}

InitBearer ==
    /\ serverBearerToken \in Secrets
    /\ allowedProjects = OptUndefined
    /\ projects = << >>
    /\ deviceInfo = [deviceType |-> "device_type_unspecified",
                     name |-> Undefined, baseUrl |-> Undefined]
    /\ syncStarted = {}
    /\ reqs = << >>
    /\ hdr = NoHeader
    /\ res = FALSE
    /\ sessions = << >>
    /\ cmp = NoCompare

CheckHeader ==
    /\ \E headerValue \in HeaderValues :
          /\ hdr' = headerValue
          /\ res' = isBearerTokenValid(headerValue, serverBearerToken)
    /\ UNCHANGED <<serverBearerToken, allowedProjects, projects, deviceInfo,
                   syncStarted, reqs, sessions, cmp>>

NextBearer == CheckHeader

SpecBearer == InitBearer /\ [][NextBearer]_vars

----------------------------------------------------------------------------
(* The comparator on its own *)

InitCompare ==
    /\ serverBearerToken = TestToken
    /\ allowedProjects = OptUndefined
    /\ projects = << >>
    /\ deviceInfo = [deviceType |-> "device_type_unspecified",
                     name |-> Undefined, baseUrl |-> Undefined]
    /\ syncStarted = {}
    /\ reqs = << >>
    /\ hdr = NoHeader
    /\ res = FALSE
    /\ sessions = << >>
    /\ cmp = NoCompare

\* timingSafeEqual(a, b) is called
Compare ==
    /\ \E a \in StringsUpTo(MaxTokenLen), b \in StringsUpTo(MaxTokenLen) :
          cmp' = [a |-> a, b |-> b, done |-> TRUE,
                  equal |-> timingSafeEqual(a, b),
                  comparisons |-> tseComparisons(a, b, 1, 0)]
    /\ UNCHANGED <<serverBearerToken, allowedProjects, projects, deviceInfo,
                   syncStarted, reqs, hdr, res, sessions>>

NextCompare == Compare

SpecCompare == InitCompare /\ [][NextCompare]_vars

----------------------------------------------------------------------------
(* Vocabulary of the properties *)

Requests == 1 .. Len(reqs)
IsPut(r) == reqs[r].route = PUT_PROJECTS
IsGet(r) == reqs[r].route = GET_DATA
Done(r) == reqs[r].pc = "done"

\* The request carries the valid bearer credential
CarriesCredential(r) ==
    reqs[r].authorization = Header(BearerSpace \o serverBearerToken)

\* Number of ProjectRecords the store holds for a public id
RecordsFor(projectPublicId) ==
    Cardinality({i \in 1 .. Len(projects) : projects[i].projectId = projectPublicId})

\* The public id is in a fetched project list
Listed(list, projectPublicId) ==
    \E i \in 1 .. Len(list) : list[i].projectId = projectPublicId

Success(r) == Done(r) /\ reqs[r].reply.status = 200

CapacityMode == ~allowedProjectsSetOrNumber.isSet
AllowlistMode == allowedProjectsSetOrNumber.isSet

\* The request is for a project that was new when it fetched the list, and
\* the list was already full
OverCapacity(r) ==
    /\ CapacityMode
    /\ ~Listed(reqs[r].existingProjects, projectPublicIdOf(r))
    /\ Len(reqs[r].existingProjects) >= allowedProjectsSetOrNumber.number

AllowlistMiss(r) ==
    /\ AllowlistMode
    /\ ~Listed(reqs[r].existingProjects, projectPublicIdOf(r))
    /\ projectPublicIdOf(r) \notin allowedProjectsSetOrNumber.set

ServerErrorCode == errorHandler(storeError("any")).code

----------------------------------------------------------------------------
(* Properties *)

\* C1. Idempotent admission: a registration of key K received after an
\* earlier registration of K returned success also returns success (no
\* error), and the store holds exactly one ProjectRecord for publicId(K).
C1_IdempotentAdmission ==
    \A r \in Requests :
        IsPut(r) /\ reqs[r].priorSuccess =>
            /\ RecordsFor(projectPublicIdOf(r)) = 1
            /\ Done(r) => reqs[r].reply.status = 200

C1_Witness ==
    \E r \in Requests :
        /\ IsPut(r) /\ reqs[r].priorSuccess /\ Success(r)
        /\ RecordsFor(projectPublicIdOf(r)) = 1

\* C2. Capacity enforcement: in capacity mode with maximum N, a registration
\* whose public id is not in the project list and that finds N or more
\* projects in it is rejected with the capacity error and creates no record;
\* a registration whose public id is in the list succeeds although the list
\* is full, and creates no record.  With the default configuration N is 1.
C2_CapacityEnforcement ==
    /\ allowedProjects.kind = "undefined" =>
          CapacityMode /\ allowedProjectsSetOrNumber.number = 1
    /\ \A r \in Requests :
          IsPut(r) /\ Done(r) /\ CapacityMode =>
            /\ OverCapacity(r) =>
                  /\ reqs[r].reply = errorHandler(tooManyProjects)
                  /\ ~reqs[r].addResult.ok
            /\ ( /\ Listed(reqs[r].existingProjects, projectPublicIdOf(r))
                 /\ Len(reqs[r].existingProjects) >= allowedProjectsSetOrNumber.number )
               => reqs[r].reply.status = 200 /\ ~reqs[r].addResult.ok

C2_Witness ==
    \E r \in Requests :
        /\ IsPut(r) /\ Done(r) /\ OverCapacity(r)
        /\ allowedProjects.kind = "undefined"
        /\ reqs[r].reply.code = "TOO_MANY_PROJECTS"
        /\ Len(projects) = 1

C5_RegistrationIsAuthenticated ==
    \A r \in Requests :
        IsPut(r) /\ ~CarriesCredential(r) /\ reqs[r].pc # "start" =>
            /\ Done(r)
            /\ reqs[r].reply = errorHandler(invalidBearerToken)
            /\ reqs[r].mutations = 0

\* C5 amended. PUT /projects is not bearer-gated: a registration is never
\* answered with the authentication failure, whatever Authorization header
\* it carries; also without the valid credential its first step is the fetch
\* of the project list.
C5_RegistrationIsNotGated ==
    \A r \in Requests :
        IsPut(r) /\ reqs[r].pc # "start" =>
            /\ reqs[r].storeCalls >= 1
            /\ Done(r) => reqs[r].reply.status # 401 /\ reqs[r].reply.code # "UNAUTHORIZED"

C5_Witness ==
    \E r \in Requests :
        /\ IsPut(r) /\ ~CarriesCredential(r) /\ Success(r)
        /\ reqs[r].addResult.ok
        /\ RecordsFor(projectPublicIdOf(r)) = 1

\* C6. Fail closed: on a bearer-gated project-scoped endpoint a request
\* without the valid credential gets the authentication failure in its first
\* step, before any store call, also when the project does not exist.
C6_AuthBeforeEverything ==
    \A r \in Requests :
        IsGet(r) /\ ~CarriesCredential(r) /\ reqs[r].pc # "start" =>
            /\ Done(r)
            /\ reqs[r].reply = errorHandler(invalidBearerToken)
            /\ reqs[r].reply.code # projectNotFoundError.code
            /\ reqs[r].storeCalls = 0

C6_Witness ==
    \E r \in Requests :
        /\ IsGet(r) /\ ~CarriesCredential(r) /\ Done(r)
        /\ ~comapeo_hasProject(projectPublicIdOf(r))
        /\ reqs[r].reply.status = 401
        /\ reqs[r].storeCalls = 0

\* C7. Authentication failures are generic: a missing header, a malformed
\* one and a wrong secret get the same response, 401 UNAUTHORIZED.
C7_GenericAuthFailure ==
    \A r1, r2 \in Requests :
        ( /\ IsGet(r1) /\ Done(r1) /\ ~CarriesCredential(r1)
          /\ IsGet(r2) /\ Done(r2) /\ ~CarriesCredential(r2) )
        => /\ reqs[r1].reply = reqs[r2].reply
           /\ reqs[r1].reply.status = 401
           /\ reqs[r1].reply.code = "UNAUTHORIZED"

C7_Witness ==
    \E r1, r2 \in Requests :
        /\ IsGet(r1) /\ Done(r1) /\ reqs[r1].authorization = MalformedHeader
        /\ IsGet(r2) /\ Done(r2) /\ reqs[r2].authorization = WrongSecretHeader
        /\ reqs[r1].reply = reqs[r2].reply
        /\ reqs[r1].reply.status = 401

\* C8. isBearerTokenValid(header, secret) is true exactly when header is
\* "Bearer " followed by secret: false for a missing header, for any other
\* length, and for a wrong prefix or token.  Each result is determined by the
\* arguments of that call alone.
C8_BearerTokenValidExactly ==
    /\ res <=> (hdr.present /\ hdr.value = BearerSpace \o serverBearerToken)
    /\ ~hdr.present => ~res
    /\ Len(hdr.value) # Len(BearerSpace) + Len(serverBearerToken) => ~res

C8_Witness ==
    /\ res
    /\ hdr.present
    /\ Len(serverBearerToken) = MaxSecretLen

\* C9. A registration rejected by the admission policy mutates nothing: the
\* step that rejects it leaves the ProjectRecords, the DeviceIdentity and the
\* started syncs as they are, and the request has made no mutating call.
C9_RejectionMutatesNothing ==
    [][\A r \in Requests :
          ( /\ IsPut(r) /\ ~Done(r) /\ reqs'[r].pc = "done"
            /\ reqs'[r].reply.code \in {projectNotInAllowlist.code, tooManyProjects.code} )
          => /\ UNCHANGED <<projects, deviceInfo, syncStarted>>
             /\ reqs'[r].mutations = 0]_vars

\* A registration was rejected while the stored DeviceIdentity did not carry
\* its base URL, so that a write would have changed it
C9_Witness ==
    \E r \in Requests :
        /\ IsPut(r) /\ Done(r) /\ (OverCapacity(r) \/ AllowlistMiss(r))
        /\ reqs[r].reply.status = 403
        /\ reqs[r].mutations = 0
        /\ deviceInfo.baseUrl # reqs[r].baseUrl
        /\ projectPublicIdOf(r) \notin syncStarted

\* C10. The two admission rejections carry two different error codes, and
\* neither is the authentication-failure code or the server-error code.
C10_RejectionsDistinguishable ==
    \A r \in Requests :
        IsPut(r) /\ Done(r) =>
            /\ AllowlistMiss(r) =>
                  reqs[r].reply.code \notin
                      {tooManyProjects.code, invalidBearerToken.code, ServerErrorCode, ""}
            /\ OverCapacity(r) =>
                  reqs[r].reply.code \notin
                      {projectNotInAllowlist.code, invalidBearerToken.code, ServerErrorCode, ""}
            /\ (AllowlistMiss(r) \/ OverCapacity(r)) =>
                  reqs[r].reply.status >= 400 /\ reqs[r].reply.status < 500

C10_Witness ==
    \E r \in Requests :
        /\ IsPut(r) /\ Done(r) /\ AllowlistMiss(r)
        /\ reqs[r].reply.code = "PROJECT_NOT_IN_ALLOWLIST"

----------------------------------------------------------------------------
(* Properties of the listing and of the sync gate *)

IsList(r) == reqs[r].route = GET_PROJECTS

\* The (publicId, name) pair of a ProjectRecord
PairOf(project) == [projectId |-> project.projectId, name |-> project.name]

\* C11. GET /projects answers only requests that carry the valid bearer
\* credential; its data is exactly the (publicId, name) pairs of the projects
\* the store held when it was read, in which every project registered with
\* success before the request appears once; and a credentialed
\* project-scoped request for such a project is never answered NotFound.
C11_ListingIsTheStore ==
    /\ \A r \in Requests :
          IsList(r) /\ reqs[r].pc # "start" =>
            /\ ~CarriesCredential(r) =>
                  /\ Done(r)
                  /\ reqs[r].reply = errorHandler(invalidBearerToken)
                  /\ reqs[r].data = << >>
                  /\ reqs[r].storeCalls = 0
            /\ CarriesCredential(r) /\ Done(r) =>
                  /\ reqs[r].reply.status = 200
                  /\ Len(reqs[r].data) = Len(reqs[r].existingProjects)
                  /\ Len(reqs[r].data) <= Len(projects)
                  /\ \A i \in 1 .. Len(reqs[r].data) :
                        /\ reqs[r].data[i] = PairOf(reqs[r].existingProjects[i])
                        /\ reqs[r].data[i] = PairOf(projects[i])
                  /\ \A projectPublicId \in reqs[r].registered :
                        Cardinality({i \in 1 .. Len(reqs[r].data) :
                                        reqs[r].data[i].projectId = projectPublicId}) = 1
    /\ \A r \in Requests :
          ( /\ IsGet(r) /\ CarriesCredential(r) /\ Done(r)
            /\ projectPublicIdOf(r) \in reqs[r].registered )
          => reqs[r].reply.status = 200

C11_Witness ==
    \E r \in Requests :
        /\ IsList(r) /\ CarriesCredential(r) /\ Done(r)
        /\ reqs[r].registered # {}
        /\ Len(reqs[r].data) = 1
        /\ reqs[r].data[1].projectId \in reqs[r].registered

IsSync(r) == reqs[r].route = GET_SYNC

\* The sessions opened for a sync connection
SessionsOf(r) == {s \in 1 .. Len(sessions) : sessions[s].socket = r}

\* C12. A sync connection for public id P becomes a replication session only
\* if the store holds P when the request is checked, and then without any
\* bearer credential; for a P unknown to the store the request is answered
\* NotFound at the gate, and no replication stream and no bridge is created.
C12_SyncExistenceGate ==
    \A r \in Requests :
        IsSync(r) =>
            /\ SessionsOf(r) # {} =>
                  /\ comapeo_hasProject(projectPublicIdOf(r))
                  /\ Cardinality(SessionsOf(r)) = 1
                  /\ Done(r) /\ reqs[r].reply.status = 101
            /\ (~comapeo_hasProject(projectPublicIdOf(r)) /\ reqs[r].pc # "start") =>
                  /\ SessionsOf(r) = {}
                  /\ reqs[r].pc \in {"ensuring", "done"}
                  /\ reqs[r].found = "NotFoundError"
                  /\ reqs[r].storeCalls = 1
            /\ (Done(r) /\ reqs[r].reply.status # 101) =>
                  /\ reqs[r].reply = errorHandler(projectNotFoundError)
                  /\ SessionsOf(r) = {}
                  /\ reqs[r].mutations = 0
            /\ Done(r) => SessionsOf(r) # {} \/ reqs[r].reply.status = 404

\* A connection without the credential became a session for a project that
\* a registration had put in the store
C12_Witness ==
    \E r \in Requests, s \in 1 .. Len(sessions) :
        /\ IsSync(r) /\ ~CarriesCredential(r) /\ Done(r)
        /\ SessionsOf(r) = {s}
        /\ sessions[s].state = "Open"
        /\ sessions[s].replicationStream.project = projectPublicIdOf(r)
        /\ projectPublicIdOf(r) \in syncStarted

----------------------------------------------------------------------------
(* Properties of the replication bridge *)

Sessions == 1 .. Len(sessions)

IsPrefix(p, q) == Len(p) <= Len(q) /\ SubSeq(q, 1, Len(p)) = p

\* C13. Order preservation: in every session the chunks written to the
\* stream are a prefix of the chunks received from the socket and the
\* messages sent on the socket are a prefix of the chunks the stream
\* produced; while the session is not Closed none has been left out.
C13_OrderPreserved ==
    \A s \in Sessions :
        /\ IsPrefix(sessions[s].toStream, sessions[s].fromSocket)
        /\ IsPrefix(sessions[s].toSocket, sessions[s].fromStream)
        /\ sessions[s].state # "Closed" =>
              /\ sessions[s].toStream = sessions[s].fromSocket
              /\ sessions[s].toSocket = sessions[s].fromStream

C13_Witness ==
    \E s \in Sessions :
        /\ sessions[s].state # "Closed"
        /\ Len(sessions[s].fromStream) = 2
        /\ sessions[s].toSocket = sessions[s].fromStream

\* C14. Backpressure: while the stream is full no chunk is read from the
\* socket, and while the socket's outbound buffer is saturated no chunk is
\* read from the stream; so neither side ever holds more than HighWaterMark
\* unconsumed chunks.
C14_Backpressure ==
    /\ [](\A s \in Sessions :
             /\ sessions[s].streamPending <= HighWaterMark
             /\ sessions[s].socketPending <= HighWaterMark)
    /\ [][\A s \in Sessions :
             /\ sessions[s].streamPending >= HighWaterMark =>
                   sessions'[s].fromSocket = sessions[s].fromSocket
             /\ sessions[s].socketPending >= HighWaterMark =>
                   sessions'[s].fromStream = sessions[s].fromStream]_vars

\* The socket was paused, the stream drained, and a second chunk came through
C14_Witness ==
    \E s \in Sessions :
        /\ Len(sessions[s].fromSocket) = 2
        /\ sessions[s].socketPaused
        /\ sessions[s].streamPending = HighWaterMark

\* C15. Fail fast: the step in which the socket or the stream raises an
\* error leaves the bridge Closed with both sides closed; afterwards nothing
\* is forwarded in either direction and the bridge stays Closed.
C15_FailFast ==
    [][\A s \in Sessions :
          /\ (sessions'[s].failed /\ ~sessions[s].failed) =>
                /\ sessions'[s].state = "Closed"
                /\ ~sessions'[s].socketOpen /\ ~sessions'[s].streamOpen
          /\ sessions[s].failed =>
                /\ sessions'[s].state = "Closed"
                /\ ~sessions'[s].socketOpen /\ ~sessions'[s].streamOpen
                /\ sessions'[s].toStream = sessions[s].toStream
                /\ sessions'[s].toSocket = sessions[s].toSocket]_vars

\* An error on a bridge that had forwarded a chunk in each direction
C15_Witness ==
    \E s \in Sessions :
        /\ sessions[s].failed
        /\ sessions[s].state = "Closed"
        /\ ~sessions[s].socketOpen /\ ~sessions[s].streamOpen
        /\ Len(sessions[s].toStream) = 1
        /\ Len(sessions[s].toSocket) = 1

\* C16. Closed is terminal and closing is idempotent: no step changes a
\* Closed bridge, whatever number of close requests is made on it, and no
\* close request raises an error.
C16_ClosedIsTerminal ==
    [][\A s \in Sessions :
          sessions[s].state = "Closed" =>
              /\ sessions'[s] = [sessions[s] EXCEPT
                                    !.closeRequests = sessions'[s].closeRequests]
              /\ ~sessions'[s].closeThrew]_vars

C16_Witness ==
    \E s \in Sessions :
        /\ sessions[s].state = "Closed"
        /\ sessions[s].closeRequests = 2
        /\ ~sessions[s].closeThrew

\* C17. Cancellation: once the socket of a session has closed the session
\* reaches Closed with its stream closed, and once the stream has ended the
\* session reaches Closed with its socket closed; a session whose two
\* endpoints have closed is Closed.
C17_Cancellation ==
    /\ [](\A s \in Sessions :
             (~sessions[s].socketOpen /\ ~sessions[s].streamOpen) =>
                 sessions[s].state = "Closed")
    /\ \A s \in 1 .. MaxSessions :
          /\ (s <= Len(sessions) /\ ~sessions[s].socketOpen)
                ~> ( /\ s <= Len(sessions)
                     /\ sessions[s].state = "Closed"
                     /\ ~sessions[s].streamOpen )
          /\ (s <= Len(sessions) /\ ~sessions[s].streamOpen)
                ~> ( /\ s <= Len(sessions)
                     /\ sessions[s].state = "Closed"
                     /\ ~sessions[s].socketOpen )

\* The socket closed first and the stream never ended by itself
C17_Witness ==
    \E s \in Sessions :
        /\ sessions[s].state = "HalfClosedBySocket"
        /\ ~sessions[s].socketOpen
        /\ sessions[s].streamOpen

\* C18. Session isolation: a step that changes one session changes no other
\* session, and no two sessions share a socket or a replication stream.
C18_SessionIsolation ==
    /\ [](\A s1, s2 \in Sessions :
             s1 # s2 =>
                 /\ sessions[s1].socket # sessions[s2].socket
                 /\ sessions[s1].replicationStream # sessions[s2].replicationStream)
    /\ [][\A s1, s2 \in Sessions :
             (s1 # s2 /\ sessions'[s1] # sessions[s1]) =>
                 sessions'[s2] = sessions[s2]]_vars

\* One session failed while another one of the same project had a chunk in
\* flight
C18_Witness ==
    \E s1, s2 \in Sessions :
        /\ s1 # s2
        /\ sessions[s1].failed
        /\ sessions[s2].state = "Open"
        /\ sessions[s2].streamPending = 1
        /\ sessions[s1].replicationStream.project = sessions[s2].replicationStream.project

----------------------------------------------------------------------------
(* Properties of the comparator and of concurrent registration *)

CalledAddProject(r) == IsPut(r) /\ reqs[r].addResult.projectId # << >>

\* C20. Two registrations of one key never both reach the store's create
\* call: the existence check a create call rests on is not separated from it
\* by a suspension point.
C20_CreateCallNotRaced ==
    \A r1, r2 \in Requests :
        ( /\ r1 # r2
          /\ reqs[r1].projectKey = reqs[r2].projectKey
          /\ CalledAddProject(r1) )
        => ~CalledAddProject(r2)

----------------------------------------------------------------------------
(* Properties of registration in flight *)

\* C21. Capacity under concurrency: in capacity mode with maximum N the
\* store never holds more than N ProjectRecords, also when registrations of
\* distinct keys are in flight at once.
C21_CapacityUnderConcurrency ==
    CapacityMode => Len(projects) <= allowedProjectsSetOrNumber.number

----------------------------------------------------------------------------
(* Registration on a server whose store already holds the project of the
   first key, registered with the first name and the first encryption keys
   by a client that reached the server under its second base URL; clients
   register with either name and with other encryption keys *)

InitStored ==
    /\ serverBearerToken = TestToken
    /\ allowedProjects = OptNumber(MaxAllowed)
    /\ projects = <<[projectId |-> projectKeyToPublicId(1),
                     name |-> "name one",
                     encryptionKeys |-> "keys one"]>>
    /\ deviceInfo = [deviceType |-> "selfHostedServer",
                     name |-> ServerName, baseUrl |-> "https://two.example/"]
    /\ syncStarted = {}
    /\ reqs = << >>
    /\ hdr = NoHeader
    /\ res = FALSE
    /\ sessions = << >>
    /\ cmp = NoCompare

ReceivePutProjectAnyKeys ==
    ReceivePutProjectFrom({NoHeader}, {"name one", "name two"},
                          {"keys two"}, {"https://one.example/"})

NextStored ==
    \/ ReceivePutProjectAnyKeys
    \/ \E r \in 1 .. Len(reqs) : PutListProjects(r)
    \/ \E r \in 1 .. Len(reqs) : PutAdmit(r)
    \/ \E r \in 1 .. Len(reqs) : PutAfterSetDeviceInfo(r)
    \/ \E r \in 1 .. Len(reqs) : PutAfterAddProject(r)
    \/ \E r \in 1 .. Len(reqs) : PutRespond(r)

SpecStored == InitStored /\ [][NextStored]_vars

\* The request has fetched the project list and run the membership test
Tested(r) == IsPut(r) /\ reqs[r].pc # "start"

\* C22. The membership test of a registration compares the submitted public
\* id against every registered public id: the number of comparisons is the
\* length of the fetched list, whether or not an id matches and wherever the
\* matching id stands.
C22_MembershipTestScansAll ==
    \A r \in Requests :
        Tested(r) =>
            someComparisons(reqs[r].existingProjects, projectPublicIdOf(r), 1, 0)
                = Len(reqs[r].existingProjects)

----------------------------------------------------------------------------
(* Repeated registration of one project from clients that reach the server
   under different base URLs *)

ReceiveRegistration ==
    /\ Len(reqs) < MaxRegistrations
    /\ \E baseUrl \in BaseUrls :
          reqs' = Append(reqs, NewRequest(PUT_PROJECTS, NoHeader, 1, "name one",
                                          "keys one", baseUrl))
    /\ UNCHANGED <<serverBearerToken, allowedProjects, projects, deviceInfo,
                   syncStarted, hdr, res, sessions, cmp>>

NextDevice ==
    \/ ReceiveRegistration
    \/ \E r \in 1 .. Len(reqs) : PutListProjects(r)
    \/ \E r \in 1 .. Len(reqs) : PutAdmit(r)
    \/ \E r \in 1 .. Len(reqs) : PutAfterSetDeviceInfo(r)
    \/ \E r \in 1 .. Len(reqs) : PutAfterAddProject(r)
    \/ \E r \in 1 .. Len(reqs) : PutRespond(r)

SpecDevice == InitAuth /\ [][NextDevice]_vars

\* The request has called setDeviceInfo: of the mutating calls it has made,
\* one is neither its addProject nor its $sync.start()
WroteDeviceInfo(r) ==
    /\ IsPut(r)
    /\ reqs[r].mutations - (IF CalledAddProject(r) THEN 1 ELSE 0)
                         - (IF Success(r) THEN 1 ELSE 0) = 1

\* C23 as stated: DeviceIdentity is written at most once for each distinct
\* base URL, so no two registrations that report one base URL both write it.
C23_WrittenOncePerBaseUrl ==
    \A r1, r2 \in Requests :
        ( /\ r1 # r2
          /\ reqs[r1].baseUrl = reqs[r2].baseUrl
          /\ WroteDeviceInfo(r1) )
        => ~WroteDeviceInfo(r2)

\* C23. A registration writes DeviceIdentity only when none is stored yet or
\* its base URL differs from the stored one, and the write stores its base
\* URL: a request whose base URL equals the stored one leaves DeviceIdentity
\* unchanged, and nothing else changes DeviceIdentity.
C23_WrittenWhenBaseUrlDiffers ==
    [][ /\ \A r \in Requests :
              (~WroteDeviceInfo(r) /\ WroteDeviceInfo(r)') =>
                  /\ \/ deviceInfo.deviceType = "device_type_unspecified"
                     \/ deviceInfo.baseUrl # reqs[r].baseUrl
                  /\ deviceInfo' = [deviceType |-> "selfHostedServer",
                                    name |-> ServerName,
                                    baseUrl |-> reqs[r].baseUrl]
        /\ deviceInfo' # deviceInfo =>
              \E r \in Requests : ~WroteDeviceInfo(r) /\ WroteDeviceInfo(r)'
      ]_vars

\* One base URL was written, replaced by another one, and written again by a
\* third registration.
C23_Witness ==
    \E r1, r2, r3 \in Requests :
        /\ r1 < r2 /\ r2 < r3
        /\ reqs[r1].baseUrl = reqs[r3].baseUrl
        /\ reqs[r2].baseUrl # reqs[r1].baseUrl
        /\ WroteDeviceInfo(r1) /\ WroteDeviceInfo(r2) /\ WroteDeviceInfo(r3)
        /\ Success(r1) /\ Success(r2) /\ Success(r3)

\* Registration under the default configuration, which admits one project,
\* by clients that reach the server under either base URL
NextDefault ==
    \/ ReceivePutProject
    \/ \E r \in 1 .. Len(reqs) : PutListProjects(r)
    \/ \E r \in 1 .. Len(reqs) : PutAdmit(r)
    \/ \E r \in 1 .. Len(reqs) : PutAfterSetDeviceInfo(r)
    \/ \E r \in 1 .. Len(reqs) : PutAfterAddProject(r)
    \/ \E r \in 1 .. Len(reqs) : PutRespond(r)

SpecDefault == InitAuth /\ [][NextDefault]_vars

\* The request passed the policy check: its project was in the list it
\* fetched, or the allowlist names it, or the list was below the maximum
Accepted(r) ==
    \/ Listed(reqs[r].existingProjects, projectPublicIdOf(r))
    \/ ~OverCapacity(r) /\ ~AllowlistMiss(r)

\* C24 as stated: only a registration of a new project writes
\* DeviceIdentity; the idempotent path leaves it unchanged.
C24_WrittenOnlyForNewProject ==
    \A r \in Requests :
        WroteDeviceInfo(r) => ~Listed(reqs[r].existingProjects, projectPublicIdOf(r))

\* C24. A registration writes DeviceIdentity only when it is accepted (its
\* project is already registered, or new and admitted) and none is stored
\* yet or the reported base URL differs from the stored one, and it does so
\* before it creates the ProjectRecord; a rejected registration, and one
\* whose base URL equals the stored one, leave DeviceIdentity unchanged.
C24_WrittenWhenAccepted ==
    [][ \A r \in Requests :
          /\ (~WroteDeviceInfo(r) /\ WroteDeviceInfo(r)') =>
                /\ Accepted(r)
                /\ \/ deviceInfo.deviceType = "device_type_unspecified"
                   \/ deviceInfo.baseUrl # reqs[r].baseUrl
                /\ ~CalledAddProject(r)'
                /\ projects' = projects
          /\ ( /\ reqs[r].pc = "listed" /\ reqs'[r].pc # "listed"
               /\ \/ ~Accepted(r)
                  \/ /\ deviceInfo.deviceType # "device_type_unspecified"
                     /\ deviceInfo.baseUrl = reqs[r].baseUrl )
             => deviceInfo' = deviceInfo
      ]_vars

\* A registration of a project that was already registered wrote
\* DeviceIdentity, its base URL being a new one, and succeeded
C24_Witness ==
    \E r \in Requests :
        /\ Listed(reqs[r].existingProjects, projectPublicIdOf(r))
        /\ WroteDeviceInfo(r)
        /\ ~CalledAddProject(r)
        /\ Success(r)
        /\ deviceInfo.baseUrl = reqs[r].baseUrl

\* C25. Every registration that returns success has started sync on its
\* project, on the new-project path and on the already-registered path
\* alike, and carries the server's device id; the response is produced in
\* the step that starts sync, right after getProject settles, so it waits
\* for nothing that sync does.
C25_SyncStartedBeforeResponse ==
    /\ [](\A r \in Requests :
            (IsPut(r) /\ Success(r)) =>
                /\ projectPublicIdOf(r) \in syncStarted
                /\ reqs[r].reply.deviceId = DeviceId)
    /\ [][ \A r \in Requests :
             (IsPut(r) /\ ~Success(r) /\ Success(r)') =>
                 /\ reqs[r].pc = "getting"
                 /\ reqs'[r].mutations = reqs[r].mutations + 1
                 /\ projectPublicIdOf(r) \in syncStarted'
                 /\ sessions' = sessions
         ]_vars

\* One registration succeeded after creating its project, another one
\* succeeded for the project that was then registered, and no replication
\* session, hence no sync round-trip, ever existed
C25_Witness ==
    \E r1, r2 \in Requests :
        /\ IsPut(r1) /\ Success(r1) /\ CalledAddProject(r1)
        /\ IsPut(r2) /\ Success(r2) /\ ~CalledAddProject(r2)
        /\ Listed(reqs[r2].existingProjects, projectPublicIdOf(r2))
        /\ projectPublicIdOf(r1) = projectPublicIdOf(r2)
        /\ projectPublicIdOf(r1) \in syncStarted
        /\ sessions = << >>

----------------------------------------------------------------------------
(* Registration of a key on which the store's derivation of the public id
   disagrees with the gateway's, followed by requests for the id the store
   filed the project under *)

ReceivePutProjectFaulty ==
    /\ Len(reqs) < MaxRequests
    /\ \E projectKey \in {1, FaultyKey} :
          reqs' = Append(reqs, NewRequest(PUT_PROJECTS, NoHeader, projectKey,
                                          "name one", "keys one",
                                          "https://one.example/"))
    /\ UNCHANGED <<serverBearerToken, allowedProjects, projects, deviceInfo,
                   syncStarted, hdr, res, sessions, cmp>>

ReceiveSyncMistaken == ReceiveSyncFrom({NoHeader}, {1, MistakenKey})

NextFaulty ==
    \/ ReceivePutProjectFaulty
    \/ ReceiveSyncMistaken
    \/ \E r \in 1 .. Len(reqs) : PutListProjects(r)
    \/ \E r \in 1 .. Len(reqs) : PutAdmit(r)
    \/ \E r \in 1 .. Len(reqs) : PutAfterSetDeviceInfo(r)
    \/ \E r \in 1 .. Len(reqs) : PutAfterAddProject(r)
    \/ \E r \in 1 .. Len(reqs) : PutRespond(r)
    \/ \E r \in 1 .. Len(reqs) : SyncPreHandler(r)
    \/ \E r \in 1 .. Len(reqs) : SyncEnsureProjectExists(r)
    \/ \E r \in 1 .. Len(reqs) : SyncHandler(r)

SpecFaulty == InitList /\ [][NextFaulty]_vars

\* The store's create call returned a public id other than the derived one
IdMismatch(r) ==
    /\ CalledAddProject(r)
    /\ reqs[r].addResult.ok
    /\ reqs[r].addResult.projectId # projectPublicIdOf(r)

RecordIn(list, projectPublicId) ==
    list[CHOOSE i \in 1 .. Len(list) : list[i].projectId = projectPublicId]

\* C27. A registration whose public id was in the store when it fetched the
\* list, whatever name and encryption keys it carries, does not invoke the
\* create call, succeeds, and leaves the ProjectRecord as it was: the store
\* keeps the one record with the first-seen name and encryption keys.
C27_FirstSeenKeysKept ==
    \A r \in Requests :
        (Tested(r) /\ Listed(reqs[r].existingProjects, projectPublicIdOf(r))) =>
            /\ ~CalledAddProject(r)
            /\ Done(r) => Success(r)
            /\ RecordsFor(projectPublicIdOf(r)) = 1
            /\ \A i \in 1 .. Len(projects) :
                  projects[i].projectId = projectPublicIdOf(r) =>
                      projects[i] = RecordIn(reqs[r].existingProjects, projectPublicIdOf(r))

\* A registration of the stored project under another name and with other
\* encryption keys succeeded; the store holds the first name and keys
C27_Witness ==
    \E r \in Requests :
        /\ IsPut(r) /\ Success(r) /\ ~CalledAddProject(r)
        /\ reqs[r].projectKey = 1
        /\ reqs[r].projectName = "name two"
        /\ reqs[r].encryptionKeys = "keys two"
        /\ projects[1] = [projectId |-> projectKeyToPublicId(1),
                          name |-> "name one", encryptionKeys |-> "keys one"]
        /\ RecordsFor(projectKeyToPublicId(1)) = 1

\* C29. Whenever the store holds a project created through registration,
\* DeviceIdentity is that of a self-hosted server: deviceType
\* selfHostedServer, the configured server name, and the base URL of a
\* registration request received so far, under every interleaving.
C29_DeviceIdentitySetBeforeProjects ==
    Len(projects) > 0 =>
        /\ deviceInfo.deviceType = "selfHostedServer"
        /\ deviceInfo.name = ServerName
        /\ \E r \in Requests : IsPut(r) /\ deviceInfo.baseUrl = reqs[r].baseUrl

\* The store holds the project one registration created while DeviceIdentity
\* carries the base URL of another registration, which is still in flight
C29_Witness ==
    \E r1, r2 \in Requests :
        /\ CalledAddProject(r1) /\ reqs[r1].addResult.ok
        /\ Len(projects) = 1
        /\ reqs[r2].baseUrl # reqs[r1].baseUrl
        /\ deviceInfo.baseUrl = reqs[r2].baseUrl
        /\ reqs[r2].pc = "settingDeviceInfo"

----------------------------------------------------------------------------
(* The error handler: the store call of a listing request rejects with an
   error of any shape *)

\* Status codes an error may carry: none, 0, below, at and above the two
\* ends of 400..599, a fractional one and one held as a string
StatusCodeValues ==
    {JsUndefined, JsNumber(0, 0), JsNumber(200, 0), JsNumber(399, 0),
     JsNumber(399, 5), JsNumber(400, 0), JsNumber(404, 0), JsNumber(404, 5),
     JsNumber(499, 0), JsNumber(500, 0), JsNumber(599, 0), JsNumber(600, 0),
     JsString(404)}

ThrownErrors ==
    {[statusCode |-> statusCode, code |-> code, message |-> message] :
        statusCode \in StatusCodeValues,
        code \in {Undefined, "E_CUSTOM"},
        message \in {Undefined, "custom message"}}

ReceiveGetProjectsWithCredential == ReceiveGetProjectsFrom({ValidHeader})

\* await this.comapeo.listProjects() rejects
ListProjectsRejects(r) ==
    /\ reqs[r].route = GET_PROJECTS
    /\ reqs[r].pc = "listing"
    /\ \E error \in ThrownErrors : Throw(r, error)
    /\ UNCHANGED <<serverBearerToken, allowedProjects, projects, deviceInfo,
                   syncStarted, hdr, res, sessions, cmp>>

NextHandler ==
    \/ ReceiveGetProjectsWithCredential
    \/ \E r \in 1 .. Len(reqs) : GetProjectsPreHandler(r)
    \/ \E r \in 1 .. Len(reqs) : GetProjectsRespond(r)
    \/ \E r \in 1 .. Len(reqs) : ListProjectsRejects(r)

SpecHandler == InitList /\ [][NextHandler]_vars

\* An error reached the error handler for the request
Failed(r) == Done(r) /\ reqs[r].error # NoError

\* The error carries a status code the error handler keeps
ValidStatusCode(error) ==
    /\ error.statusCode.type = "number"
    /\ error.statusCode.tenths = 0
    /\ error.statusCode.int >= 400
    /\ error.statusCode.int < 600

\* C30. Every error that reaches the error handler yields a response with a
\* status in 400..599 and a body that holds a code and a message: an error
\* with an integer statusCode in 400..599 keeps it, every other error (no
\* statusCode, a non-integer one, one below 400 or at least 600) is reported
\* with status 500.
C30_ErrorResponseStatus ==
    \A r \in Requests :
        Failed(r) =>
            /\ reqs[r].reply.status >= 400 /\ reqs[r].reply.status <= 599
            /\ reqs[r].reply.code \notin {Undefined, ""}
            /\ reqs[r].reply.message \notin {Undefined, ""}
            /\ ValidStatusCode(reqs[r].error) =>
                  reqs[r].reply.status = reqs[r].error.statusCode.int
            /\ ~ValidStatusCode(reqs[r].error) => reqs[r].reply.status = 500

\* One error with the fractional status code 404.5 and no code was reported
\* as 500 INTERNAL_SERVER_ERROR, one with status code 599 kept it
C30_Witness ==
    \E r1, r2 \in Requests :
        /\ Failed(r1)
        /\ reqs[r1].error.statusCode = JsNumber(404, 5)
        /\ reqs[r1].error.code = Undefined
        /\ reqs[r1].reply.status = 500
        /\ reqs[r1].reply.code = "INTERNAL_SERVER_ERROR"
        /\ Failed(r2)
        /\ reqs[r2].error.statusCode = JsNumber(599, 0)
        /\ reqs[r2].reply.status = 599

----------------------------------------------------------------------------
(* Properties of a half-closed bridge *)

====
